---- MODULE Spec2Model ----
(***************************************************************************)
(* Payment-and-ledger core of scraping-backend (payments/views.py,          *)
(* payments/models.py, accounts/models.py).                                 *)
(*                                                                          *)
(* The database is modelled as Django runs it by default on PostgreSQL and  *)
(* MySQL: autocommit outside transaction.atomic(), READ COMMITTED inside.   *)
(* A statement reads the latest committed rows (plus the transaction's own  *)
(* writes); an UPDATE takes a row lock that is held until commit or         *)
(* rollback, and a second writer of the same row waits for it.  The writes  *)
(* of an open transaction are invisible to every other worker, so an open   *)
(* transaction is represented by the worker's position (pc) and its         *)
(* in-memory model instances (obj, usr); Commit applies them, Rollback      *)
(* drops them.                                                              *)
(*                                                                          *)
(* The payment gateway (Stripe) is external: what a retrieve call returns   *)
(* and which verified events arrive are inputs, chosen with \E.             *)
(* Fields that no modelled handler reads back (stripe_charge_id,            *)
(* updated_at, description, billing snapshot, stripe_customer_id) are left  *)
(* out.                                                                     *)
(*                                                                          *)
(* Three further parts of the backend are modelled beside it, each with     *)
(* its own specification: the token handlers of UserViewSet                 *)
(* (accounts/views.py), the webhook receiver and the outbound API calls of  *)
(* the integrations app, and the subscription webhook service               *)
(* (payments/services/stripe_service.py).                                   *)
(***************************************************************************)
EXTENDS Integers, Sequences, FiniteSets, TLC

\* ------------------------------------------------------------------ bounds
MaxPayments == 2        \* Payment rows that may be created

Workers == {"w1", "w2"} \* request-handling workers running concurrently
Users == {"u1", "u2"}   \* accounts
NoUser == "nobody"
PkgIds == {"basic", "legacy", "adhoc"}
PayIds == 1..MaxPayments

\* Provider references: a payment-intent id "pi_<n>" or a checkout-session
\* id "cs_<n>"; session cs_<n> is paid through intent pi_<n>.
NoRef == <<"none", 0>>
Pi(n) == <<"pi", n>>
Cs(n) == <<"cs", n>>
Refs == {Pi(n) : n \in PayIds} \cup {Cs(n) : n \in PayIds}
IsCheckoutRef(ref) == ref[1] = "cs"

VARIABLES
  packages,      \* TokenPackage table
  payments,      \* Payment table
  balance,       \* User.balance, per account
  transactions,  \* Transaction table, in insertion order
  invoices,      \* Invoice table
  pc,            \* per worker: position in the handler it runs
  req,           \* per worker: the request it handles
  obj,           \* per worker: the in-memory Payment instance
  usr,           \* per worker: the in-memory User instance (payment.user)
  resp,          \* per worker: the response it produced
  gateway,       \* objects the gateway holds: "none", "intent" or "session"
  api_key,       \* stripe.api_key, the module-level credential of the process
  accounts,      \* User table: is_verified and password, per account
  verifications, \* UserVerification table
  now,           \* timezone.now(), in clock ticks
  endpoints,     \* WebhookEndpoint table of the integrations app
  events,        \* number of WebhookEvent rows, per endpoint
  integrations,  \* UserIntegration table
  logs,          \* IntegrationLog table, in insertion order
  work           \* per worker: the accounts, integrations or subscription
                 \* request it handles, its position, its instances and
                 \* its response

vars == <<packages, payments, balance, transactions, invoices,
          pc, req, obj, usr, resp, gateway, api_key,
          accounts, verifications, now,
          endpoints, events, integrations, logs, work>>
db == <<packages, payments, balance, transactions, invoices>>
\* what the payment handlers own besides User.balance
payflow == <<packages, payments, transactions, invoices,
             pc, req, obj, usr, resp, gateway, api_key>>
\* what the payment handlers leave alone
site == <<accounts, verifications, now, endpoints, events, integrations, logs, work>>
acct == <<accounts, verifications, now>>
integ == <<endpoints, events, integrations, logs>>

\* ------------------------------------------------------------------ rows
NoPackage == [exists |-> FALSE, token_amount |-> 0, price |-> 0, is_active |-> FALSE]
NoPayment == [exists |-> FALSE, user |-> NoUser, pkg |-> "basic", amount |-> 0,
              token_amount |-> 0, status |-> "none", spi |-> NoRef,
              test_mode |-> FALSE, hex8 |-> 0]
NoObj == [id |-> 0, row |-> NoPayment]
NoUsr == [id |-> NoUser, balance |-> 0, balance_before |-> 0]
\* kind: which handler runs; user: request.user; sig, type: the webhook's
\* signature header and event type; paid: the checkout event's session is
\* paid; gw_error: a retrieve call raised;
\* key: the credential a gateway call of the request was made with
NoReq == [kind |-> "none", ref |-> NoRef, pi |-> NoRef, verified |-> FALSE,
          user |-> NoUser, sig |-> "none", type |-> "none",
          gw_error |-> FALSE, key |-> "none", paid |-> FALSE]
NoResp == [code |-> 0, new_balance |-> -1, error |-> "none"]

\* f"INV-{payment.id.hex[:8].upper()}": the number is made of the first
\* eight hex digits of the payment's UUID primary key, kept in hex8.  The
\* primary keys of two payments differ; their first eight digits need not.
InvoiceNumber(pid) == payments[pid].hex8

\* sum of the signed amounts of the account's Transaction rows
RECURSIVE SumFrom(_, _)
SumFrom(u, i) ==
  IF i > Len(transactions) THEN 0
  ELSE (IF transactions[i].user = u THEN transactions[i].amount ELSE 0)
       + SumFrom(u, i + 1)
LedgerSum(u) == SumFrom(u, 1)

TransactionsOf(pid) == {i \in 1..Len(transactions) : transactions[i].reference_id = pid}
InvoicesOf(pid) == {inv \in invoices : inv.payment = pid}

\* --------------------------------------------------- accounts app rows
MaxTokens == 2          \* UserVerification rows that may be created
MaxTime == 3            \* clock ticks
TokenLifetime == 2      \* timedelta(hours=24), in clock ticks of 12 hours
TokIds == 1..MaxTokens
\* what a request may carry as its token besides the token of a row
MissingToken == -1
MalformedToken == -2
MalformedEmail == "malformed"

NoAccount == [exists |-> FALSE, is_verified |-> FALSE, password |-> "none"]
\* issued_by is no column of the table: it records the handler that created
\* the row ("create" or "request_password_reset").
NoVerification == [exists |-> FALSE, user |-> NoUser, expires_at |-> 0,
                   is_used |-> FALSE, issued_by |-> "none"]
\* the in-memory User instance: save() writes every column, balance included
NoInstance == [id |-> NoUser, is_verified |-> FALSE, password |-> "none", balance |-> 0]

\* ----------------------------------------------- integrations app rows
MaxDeliveries == 2      \* webhook deliveries per endpoint
MaxCalls == 2           \* make_api_call invocations
EpIds == {"e1", "e2", "e3"}   \* endpoint paths: active, inactive, unknown
IntegIds == {"i1"}
NoIntegration == [sync_count |-> 0, error_count |-> 0, last_error |-> "none"]

\* endpoint, integration: the in-memory instances; log: the index of the
\* call's IntegrationLog row; outcome: "returned" or "raised"
NoWork == [pc |-> "idle", op |-> "none", token |-> 0, email |-> NoUser,
           new_password |-> "none", user |-> NoInstance, ver |-> NoVerification,
           mail |-> "none", code |-> 0, message |-> "none",
           path |-> "none", endpoint |-> 0,
           method |-> "none", integration |-> NoIntegration, log |-> 0,
           outcome |-> "none", type |-> "none", customer |-> NoUser]

\* ------------------------------------------------------------------ init
Init ==
  /\ packages = [k \in PkgIds |->
       CASE k = "basic"  -> [exists |-> TRUE, token_amount |-> 2, price |-> 1, is_active |-> TRUE]
         [] k = "legacy" -> [exists |-> TRUE, token_amount |-> 5, price |-> 2, is_active |-> FALSE]
         [] OTHER        -> NoPackage]
  /\ payments = [p \in PayIds |-> NoPayment]
  /\ balance = [u \in Users |-> 0]
  /\ transactions = <<>>
  /\ invoices = {}
  /\ pc = [w \in Workers |-> "idle"]
  /\ req = [w \in Workers |-> NoReq]
  /\ obj = [w \in Workers |-> NoObj]
  /\ usr = [w \in Workers |-> NoUsr]
  /\ resp = [w \in Workers |-> NoResp]
  /\ gateway = [n \in PayIds |-> "none"]
  /\ api_key = "none"
  /\ accounts = [u \in Users |-> NoAccount]
  /\ verifications = [t \in TokIds |-> NoVerification]
  /\ now = 0
  /\ endpoints = [e \in EpIds |->
       CASE e = "e1" -> [exists |-> TRUE, is_active |-> TRUE, call_count |-> 0]
         [] e = "e2" -> [exists |-> TRUE, is_active |-> FALSE, call_count |-> 0]
         [] OTHER    -> [exists |-> FALSE, is_active |-> FALSE, call_count |-> 0]]
  /\ events = [e \in EpIds |-> 0]
  /\ integrations = [i \in IntegIds |-> NoIntegration]
  /\ logs = <<>>
  /\ work = [w \in Workers |-> NoWork]

\* ------------------------------------------------------------- helpers
\* The handler builds its response; the request and the instances it
\* loaded stay in the worker until the response is sent (Return).
Raise(w, code, error) ==
  /\ pc' = [pc EXCEPT ![w] = "done"]
  /\ resp' = [resp EXCEPT ![w] = [code |-> code, new_balance |-> -1, error |-> error]]

Respond(w, code, nb) ==
  /\ pc' = [pc EXCEPT ![w] = "done"]
  /\ resp' = [resp EXCEPT ![w] = [code |-> code, new_balance |-> nb, error |-> "none"]]

\* A handler that answers before it loaded a payment.
Answer(w, kind, ref, code) ==
  /\ Respond(w, code, -1)
  /\ req' = [req EXCEPT ![w] = [NoReq EXCEPT !.kind = kind, !.ref = ref]]
  /\ UNCHANGED <<obj, usr>>

\* The response is sent and the worker is free for the next request.
Return(w) ==
  /\ pc[w] = "done"
  /\ pc' = [pc EXCEPT ![w] = "idle"]
  /\ req' = [req EXCEPT ![w] = NoReq]
  /\ obj' = [obj EXCEPT ![w] = NoObj]
  /\ usr' = [usr EXCEPT ![w] = NoUsr]
  /\ resp' = [resp EXCEPT ![w] = NoResp]
  /\ UNCHANGED <<packages, payments, balance, transactions, invoices, gateway, api_key>>

\* the lookup without its status filter
AnyStatusWith(refs) ==
  {p \in PayIds : payments[p].exists /\ payments[p].spi \in (refs \ {NoRef})}

\* Payment.objects.filter(stripe_payment_intent_id__in=refs, status="pending")
PendingWith(refs) ==
  {p \in PayIds : /\ payments[p].exists
                  /\ payments[p].status = "pending"
                  /\ payments[p].spi \in (refs \ {NoRef})}
\* .first(): the lowest primary key, 0 for None
First(S) == IF S = {} THEN 0 ELSE CHOOSE p \in S : \A q \in S : p <= q

\* Rows an open transaction has written and still locks.
InTransaction(w) == pc[w] \in {"t_save", "t_read", "t_write", "t_txn", "t_inv", "t_commit"}
PaymentLocked(w, pid) ==
  \E v \in Workers \ {w} :
    pc[v] \in {"t_read", "t_write", "t_txn", "t_inv", "t_commit"} /\ obj[v].id = pid
UserLocked(w, u) ==
  \E v \in Workers \ {w} :
    pc[v] \in {"t_txn", "t_inv", "t_commit"} /\ usr[v].id = u


\* ------------------------------------------------- purchase initiation
DefaultTokenAmount == 1000
DefaultPrice == 100
NoCustom == [given |-> FALSE, token_amount |-> 0, price |-> 0]

\* the TokenPackage the custom branch creates or updates
CustomPackage(found, custom) ==
  IF ~found.exists
  THEN [exists |-> TRUE,
        token_amount |-> IF custom.given THEN custom.token_amount ELSE DefaultTokenAmount,
        price |-> IF custom.given THEN custom.price ELSE DefaultPrice,
        is_active |-> TRUE]
  ELSE [found EXCEPT !.token_amount = IF custom.given THEN custom.token_amount ELSE @,
                     !.price = IF custom.given THEN custom.price ELSE @]

\* a pending record that keeps no provider reference
PendingPaymentUnreferenced(u, k, token_package, ref, test_mode, id_hex8) ==
  [exists |-> TRUE, user |-> u, pkg |-> k,
   amount |-> token_package.price,
   token_amount |-> token_package.token_amount,
   status |-> "pending", spi |-> NoRef, test_mode |-> test_mode,
   hex8 |-> id_hex8]

\* a pending record stored under one fixed reference, whatever the gateway returned
PendingPaymentSharedRef(u, k, token_package, ref, test_mode, id_hex8) ==
  [exists |-> TRUE, user |-> u, pkg |-> k,
   amount |-> token_package.price,
   token_amount |-> token_package.token_amount,
   status |-> "pending", spi |-> Pi(1), test_mode |-> test_mode,
   hex8 |-> id_hex8]

\* Payment.objects.create(...): the pending record of the purchase
PendingPayment(u, k, token_package, ref, test_mode, id_hex8) ==
  [exists |-> TRUE, user |-> u, pkg |-> k,
   amount |-> token_package.price,
   token_amount |-> token_package.token_amount,
   status |-> "pending", spi |-> ref, test_mode |-> test_mode,
   hex8 |-> id_hex8]

NextPaymentId == Cardinality({p \in PayIds : payments[p].exists}) + 1

\* the credential a mode flag selects
KeyFor(test_mode) == IF test_mode THEN "test" ELSE "live"

\* CreatePaymentIntentView.post for user u and package k; gateway_ok says
\* whether the gateway's create call succeeds, id_hex8 the first eight hex
\* digits of the uuid4 the new Payment gets.  The handler first sets
\* stripe.api_key from the request's test_mode.
CreatePaymentIntent(w, u, k, test_mode, is_custom, custom, use_checkout, gateway_ok, id_hex8) ==
  /\ pc[w] = "idle"
  /\ NextPaymentId \in PayIds
  /\ api_key' = KeyFor(test_mode)
  /\ LET found == packages[k]
         token_package == IF is_custom THEN CustomPackage(found, custom) ELSE found
         pid == NextPaymentId
         created == PendingPayment(u, k, token_package,
                                   IF use_checkout THEN Cs(pid) ELSE Pi(pid), test_mode,
                                   id_hex8)
         request == [NoReq EXCEPT !.kind = "create", !.user = u]
     IN IF ~is_custom /\ ~(found.exists /\ found.is_active)
        THEN \* TokenPackage.DoesNotExist
             /\ Respond(w, 404, -1)
             /\ req' = [req EXCEPT ![w] = request]
             /\ UNCHANGED <<db, gateway, obj, usr>>
        ELSE /\ packages' = [packages EXCEPT ![k] = token_package]
             /\ req' = [req EXCEPT ![w] = [request EXCEPT !.key = KeyFor(test_mode)]]
             /\ IF gateway_ok
                THEN /\ gateway' = [gateway EXCEPT ![pid] =
                                      IF use_checkout THEN "session" ELSE "intent"]
                     /\ payments' = [payments EXCEPT ![pid] = created]
                     /\ Respond(w, 200, -1)
                     /\ obj' = [obj EXCEPT ![w] = [id |-> pid, row |-> created]]
                     /\ UNCHANGED usr
                ELSE \* stripe.error.StripeError
                     /\ Respond(w, 400, -1)
                     /\ UNCHANGED <<payments, gateway, obj, usr>>
             /\ UNCHANGED <<balance, transactions, invoices>>

\* ------------------------------------------------- client confirmation
\* ConfirmPaymentView.post, sent by the authenticated user caller, up to the
\* pending lookup (by provider reference and status only); once the payment is
\* found, stripe.api_key is set from the payment's stored test_mode
ConfirmLookup(w, caller, ref) ==
  /\ pc[w] = "idle"
  /\ LET pid == First(PendingWith({ref}))
     IN IF pid = 0
        THEN /\ Respond(w, 404, -1)
             /\ req' = [req EXCEPT ![w] = [NoReq EXCEPT !.kind = "confirm", !.ref = ref,
                                                        !.user = caller]]
             /\ UNCHANGED <<obj, usr, api_key>>
        ELSE /\ pc' = [pc EXCEPT ![w] = "c_retrieve"]
             /\ req' = [req EXCEPT ![w] = [NoReq EXCEPT !.kind = "confirm", !.ref = ref,
                                                        !.user = caller]]
             /\ obj' = [obj EXCEPT ![w] = [id |-> pid, row |-> payments[pid]]]
             /\ api_key' = KeyFor(payments[pid].test_mode)
             /\ UNCHANGED <<usr, resp>>
  /\ UNCHANGED <<db, gateway>>

\* The gateway status check decides whether confirmation goes on to settle.
\* sess: what Session.retrieve reported ("na" when the reference is no
\* session id); intent: what PaymentIntent.retrieve reported ("na" when no
\* intent id is at hand).
ConfirmProceeds(test_mode, sess, intent) ==
  /\ sess \in {"na", "paid"}
  /\ (intent \in {"other", "error"} => test_mode)

\* the gateway said the checkout session is paid or the intent succeeded
GatewayReportedSuccess(sess, intent) == sess = "paid" \/ intent = "succeeded"

\* The retrieve calls: sess and intent are the gateway's answers, has_intent
\* whether the session carries a payment_intent.  The calls are made with
\* whatever stripe.api_key holds at that moment.
ConfirmRetrieve(w, sess, has_intent, intent) ==
  /\ pc[w] = "c_retrieve"
  /\ LET s == IF IsCheckoutRef(req[w].ref) THEN sess ELSE "na"
         i == IF s = "na" \/ (s = "paid" /\ has_intent) THEN intent ELSE "na"
     IN /\ req' = [req EXCEPT ![w].verified = GatewayReportedSuccess(s, i),
                              ![w].gw_error = (s = "error" \/ i = "error"),
                              ![w].key = api_key]
        /\ IF ConfirmProceeds(obj[w].row.test_mode, s, i)
           THEN /\ pc' = [pc EXCEPT ![w] = "t_save"]
                /\ UNCHANGED resp
           ELSE Respond(w, 400, -1)
  /\ UNCHANGED <<db, obj, usr, gateway, api_key>>

\* ------------------------------------------------------------- webhook
EventTypes == {"payment_intent.succeeded", "payment_intent.payment_failed",
               "checkout.session.completed", "customer.created"}

\* a dispatch whose final branch treats every other type as a success
EventKindDefaultSucceeded(type) ==
  CASE type = "payment_intent.payment_failed" -> "wh_failed"
    [] type = "checkout.session.completed" -> "wh_checkout"
    [] OTHER -> "wh_succeeded"

EventKind(type) ==
  CASE type = "payment_intent.succeeded" -> "wh_succeeded"
    [] type = "payment_intent.payment_failed" -> "wh_failed"
    [] type = "checkout.session.completed" -> "wh_checkout"
    [] OTHER -> "wh_other"

\* only the presence of the header is tested
SignaturePresent(sig) == sig # "missing"

\* stripe.Webhook.construct_event accepts the payload
SignatureOK(sig) == sig = "valid"

\* StripeWebhookView.post: signature check, dispatch on the event type, and
\* the handler's pending lookup.  The event's object is intent pi_<n>, or
\* session cs_<n> with its payment_intent (pi_<n> or null) and payment_status.
\* test_path: 'test' occurs in the request path.  With a signature header
\* present, stripe.api_key is set before the signature is verified.
WebhookPost(w, sig, type, n, has_intent, paid, test_path) ==
  /\ pc[w] = "idle"
  /\ (type = "checkout.session.completed" => gateway[n] # "intent")
  /\ api_key' = IF sig = "missing" THEN api_key ELSE KeyFor(test_path)
  /\ LET kind == EventKind(type)
         session_intent == IF kind = "wh_checkout" /\ has_intent THEN Pi(n) ELSE NoRef
         refs == IF kind = "wh_checkout" THEN {Cs(n), session_intent} ELSE {Pi(n)}
         pid == First(PendingWith(refs))
         ref == IF kind = "wh_checkout" THEN Cs(n) ELSE Pi(n)
         request == [NoReq EXCEPT !.kind = kind, !.ref = ref, !.pi = session_intent,
                                  !.sig = sig, !.type = type,
                                  !.paid = (kind = "wh_checkout" /\ paid)]
     IN IF sig = "missing" \/ ~SignatureOK(sig)
        THEN /\ Respond(w, 400, -1)
             /\ req' = [req EXCEPT ![w] = [NoReq EXCEPT !.kind = "webhook", !.sig = sig]]
             /\ UNCHANGED <<obj, usr>>
        ELSE IF kind = "wh_other" \/ pid = 0 \/ (kind = "wh_checkout" /\ ~paid)
             THEN /\ Respond(w, 200, -1)
                  /\ req' = [req EXCEPT ![w] = request]
                  /\ UNCHANGED <<obj, usr>>
             ELSE /\ pc' = [pc EXCEPT ![w] = IF kind = "wh_failed" THEN "f_save" ELSE "t_save"]
                  /\ req' = [req EXCEPT ![w] = request]
                  /\ obj' = [obj EXCEPT ![w] = [id |-> pid, row |-> payments[pid]]]
                  /\ UNCHANGED <<usr, resp>>
  /\ UNCHANGED <<db, gateway>>

\* a failure save that also drops the provider reference
FailedRowDetached(row) == [row EXCEPT !.status = "failed", !.spi = NoRef]

\* _handle_payment_intent_failed after its lookup: payment.save() in
\* autocommit writes every field of the instance, status "failed".
FailedRow(row) == [row EXCEPT !.status = "failed"]

FailSave(w) ==
  /\ pc[w] = "f_save"
  /\ ~PaymentLocked(w, obj[w].id)
  /\ obj' = [obj EXCEPT ![w].row = FailedRow(@)]
  /\ payments' = [payments EXCEPT ![obj[w].id] = FailedRow(obj[w].row)]
  /\ Respond(w, 200, -1)
  /\ UNCHANGED <<packages, balance, transactions, invoices, req, usr, gateway, api_key>>

\* ---------------------------------------------------------- settlement
\* The body of `with transaction.atomic():`, the same statements in
\* ConfirmPaymentView.post, _handle_payment_intent_succeeded and
\* _handle_checkout_session_completed.

\* the instance saved without the reference being reconciled
CompletedRowKeepRef(row, kind, session_intent) == [row EXCEPT !.status = "completed"]

\* the instance as payment.save() writes it
CompletedRow(row, kind, session_intent) ==
  [row EXCEPT !.status = "completed",
              !.spi = IF kind = "wh_checkout" /\ session_intent # NoRef /\ @ # session_intent
                      THEN session_intent ELSE @]

\* payment.save() issued before the atomic block is entered: committed at once
SavePaymentOutsideAtomic(w) ==
  /\ pc[w] = "t_save"
  /\ ~PaymentLocked(w, obj[w].id)
  /\ obj' = [obj EXCEPT ![w].row = CompletedRow(@, req[w].kind, req[w].pi)]
  /\ payments' = [payments EXCEPT ![obj[w].id] = CompletedRow(obj[w].row, req[w].kind, req[w].pi)]
  /\ pc' = [pc EXCEPT ![w] = "t_read"]
  /\ UNCHANGED <<packages, balance, transactions, invoices, req, usr, resp, gateway, api_key>>

\* payment.save() followed, inside the atomic block, by a gateway retrieve
SavePaymentThenRetrieve(w) ==
  /\ pc[w] = "t_save"
  /\ ~PaymentLocked(w, obj[w].id)
  /\ obj' = [obj EXCEPT ![w].row = CompletedRow(@, req[w].kind, req[w].pi)]
  /\ pc' = [pc EXCEPT ![w] = "t_read"]
  /\ req' = [req EXCEPT ![w].key = api_key]
  /\ UNCHANGED <<db, usr, resp, gateway, api_key>>

SavePayment(w) ==
  /\ pc[w] = "t_save"
  /\ ~PaymentLocked(w, obj[w].id)
  /\ obj' = [obj EXCEPT ![w].row = CompletedRow(@, req[w].kind, req[w].pi)]
  /\ pc' = [pc EXCEPT ![w] = "t_read"]
  /\ UNCHANGED <<db, req, usr, resp, gateway, api_key>>

\* user = payment.user; balance_before = user.balance; user.balance += token_amount
\* the package's current token_amount instead of the payment's own
PackageTokens(w) == packages[obj[w].row.pkg].token_amount

\* payment.token_amount, the amount stored on the payment at initiation
TokensToCredit(w) == obj[w].row.token_amount

Credited(b, token_amount) == b + token_amount

ReadBalance(w) ==
  /\ pc[w] = "t_read"
  /\ LET u == obj[w].row.user
     IN usr' = [usr EXCEPT ![w] = [id |-> u, balance_before |-> balance[u],
                                   balance |-> Credited(balance[u], TokensToCredit(w))]]
  /\ pc' = [pc EXCEPT ![w] = "t_write"]
  /\ UNCHANGED <<db, req, obj, resp, gateway, api_key>>

\* user.save(update_fields=["balance"])
WriteBalance(w) ==
  /\ pc[w] = "t_write"
  /\ ~UserLocked(w, usr[w].id)
  /\ pc' = [pc EXCEPT ![w] = "t_txn"]
  /\ UNCHANGED <<db, req, obj, usr, resp, gateway, api_key>>

\* balance_before taken after the increment
LedgerEntryStaleBefore(w) ==
  [user |-> usr[w].id, transaction_type |-> "purchase",
   amount |-> obj[w].row.token_amount,
   balance_before |-> usr[w].balance, balance_after |-> usr[w].balance,
   reference_id |-> obj[w].id]

\* Transaction.objects.create(...)
LedgerEntry(w) ==
  [user |-> usr[w].id, transaction_type |-> "purchase",
   amount |-> TokensToCredit(w),
   balance_before |-> usr[w].balance_before, balance_after |-> usr[w].balance,
   reference_id |-> obj[w].id]

CreateTransaction(w) ==
  /\ pc[w] = "t_txn"
  /\ pc' = [pc EXCEPT ![w] = "t_inv"]
  /\ UNCHANGED <<db, req, obj, usr, resp, gateway, api_key>>

\* Invoice.objects.create(...): payment is one-to-one, invoice_number unique
NewInvoice(w) ==
  [payment |-> obj[w].id, user |-> usr[w].id,
   invoice_number |-> InvoiceNumber(obj[w].id), status |-> "paid"]

\* Invoice.payment as a plain foreign key: only the number is unique, and
\* that one is checked after the payment's own invoices are set aside
InvoiceNumberConflictOnly(inv) ==
  \E other \in invoices :
    other.payment # inv.payment /\ other.invoice_number = inv.invoice_number

InvoiceConflict(inv) ==
  \E other \in invoices :
    other.payment = inv.payment \/ other.invoice_number = inv.invoice_number

\* On a conflict the insert raises IntegrityError: the atomic block rolls
\* back and the handler answers 500.  The insert waits while another open
\* transaction holds an uncommitted Invoice with the same unique key.
CreateInvoice(w) ==
  /\ pc[w] = "t_inv"
  /\ ~\E v \in Workers \ {w} :
        /\ pc[v] = "t_commit"
        /\ \/ obj[v].id = obj[w].id
           \/ InvoiceNumber(obj[v].id) = InvoiceNumber(obj[w].id)
  /\ IF InvoiceConflict(NewInvoice(w))
     THEN Raise(w, 500, "IntegrityError")
     ELSE /\ pc' = [pc EXCEPT ![w] = "t_commit"]
          /\ UNCHANGED resp
  /\ UNCHANGED <<db, req, obj, usr, gateway, api_key>>

\* leaving the atomic block: the four writes become visible together
Commit(w) ==
  /\ pc[w] = "t_commit"
  /\ payments' = [payments EXCEPT ![obj[w].id] = obj[w].row]
  /\ balance' = [balance EXCEPT ![usr[w].id] = usr[w].balance]
  /\ transactions' = Append(transactions, LedgerEntry(w))
  /\ invoices' = invoices \cup {NewInvoice(w)}
  /\ Respond(w, 200, IF req[w].kind = "confirm" THEN usr[w].balance ELSE -1)
  /\ UNCHANGED <<packages, req, obj, usr, gateway, api_key>>

\* A statement of the settlement raises (database error): the atomic block
\* rolls back, nothing of it is committed, and the handler answers 500.
DbError(w) ==
  /\ pc[w] \in {"t_save", "t_read", "t_write", "t_txn", "t_inv", "f_save"}
  /\ Raise(w, 500, "DatabaseError")
  /\ UNCHANGED <<db, req, obj, usr, gateway, api_key>>

\* --------------------------------------------------------------- specs
RetrieveAnswers == {"paid", "unpaid", "error"}
IntentAnswers == {"succeeded", "other", "error"}
Signatures == {"missing", "invalid", "valid"}

\* Concurrent workers; one account buys the catalog package "basic".
Buyers == {"u1"}

Next ==
  /\ UNCHANGED site
  /\ \E w \in Workers :
       \/ \E u \in Buyers, use_checkout \in BOOLEAN, gateway_ok \in BOOLEAN :
            CreatePaymentIntent(w, u, "basic", FALSE, FALSE, NoCustom, use_checkout, gateway_ok, NextPaymentId)
       \/ \E caller \in Buyers, ref \in Refs : ConfirmLookup(w, caller, ref)
       \/ \E sess \in RetrieveAnswers, has_intent \in BOOLEAN, intent \in IntentAnswers :
            ConfirmRetrieve(w, sess, has_intent, intent)
       \/ \E sig \in Signatures, type \in EventTypes, n \in PayIds,
             has_intent \in BOOLEAN, paid \in BOOLEAN :
            WebhookPost(w, sig, type, n, has_intent, paid, FALSE)
       \/ FailSave(w)
       \/ SavePayment(w)
       \/ ReadBalance(w)
       \/ WriteBalance(w)
       \/ CreateTransaction(w)
       \/ CreateInvoice(w)
       \/ Commit(w)
       \/ DbError(w)
       \/ Return(w)

Spec == Init /\ [][Next]_vars

\* One request at a time (a request starts only when every other worker is
\* idle); either account buys a catalog package, in test or live mode.
Alone(w) == \A v \in Workers \ {w} : pc[v] = "idle"

SeqNext ==
  /\ UNCHANGED site
  /\ \E w \in Workers :
       \/ \E u \in Users, k \in {"basic", "legacy"}, test_mode \in BOOLEAN,
             use_checkout \in BOOLEAN, gateway_ok \in BOOLEAN :
            Alone(w) /\ CreatePaymentIntent(w, u, k, test_mode, FALSE, NoCustom, use_checkout, gateway_ok, NextPaymentId)
       \/ \E caller \in Users, ref \in Refs : Alone(w) /\ ConfirmLookup(w, caller, ref)
       \/ \E sess \in RetrieveAnswers, has_intent \in BOOLEAN, intent \in IntentAnswers :
            ConfirmRetrieve(w, sess, has_intent, intent)
       \/ \E sig \in Signatures, type \in EventTypes, n \in PayIds,
             has_intent \in BOOLEAN, paid \in BOOLEAN :
            Alone(w) /\ WebhookPost(w, sig, type, n, has_intent, paid, FALSE)
       \/ FailSave(w)
       \/ SavePayment(w)
       \/ ReadBalance(w)
       \/ WriteBalance(w)
       \/ CreateTransaction(w)
       \/ CreateInvoice(w)
       \/ Commit(w)
       \/ DbError(w)
       \/ Return(w)

SeqSpec == Init /\ [][SeqNext]_vars

\* Credential selection: concurrent workers, purchases through the checkout
\* flow in test and in live mode, confirmations the gateway does not let
\* through, and webhook requests that write nothing.
KeyNext ==
  /\ UNCHANGED site
  /\ \E w \in Workers :
       \/ \E u \in Buyers, test_mode \in BOOLEAN, gateway_ok \in BOOLEAN :
            CreatePaymentIntent(w, u, "basic", test_mode, FALSE, NoCustom, TRUE, gateway_ok, NextPaymentId)
       \/ \E caller \in Buyers, ref \in Refs : ConfirmLookup(w, caller, ref)
       \/ \E sess \in {"unpaid", "error"} : ConfirmRetrieve(w, sess, FALSE, "na")
       \/ \E sig \in Signatures, n \in PayIds, test_path \in BOOLEAN :
            WebhookPost(w, sig, "customer.created", n, FALSE, FALSE, test_path)
       \/ Return(w)

KeySpec == Init /\ [][KeyNext]_vars

\* Purchase initiation alone: either account, every package id, catalog and
\* custom purchases, both flows, the gateway accepting or refusing.
Customs == {NoCustom, [given |-> TRUE, token_amount |-> 3, price |-> 2]}

InitNext ==
  /\ UNCHANGED site
  /\ \E w \in Workers :
       \/ \E u \in Users, k \in PkgIds, is_custom \in BOOLEAN, custom \in Customs,
             use_checkout \in BOOLEAN, gateway_ok \in BOOLEAN :
            /\ Alone(w)
            /\ (custom.given => is_custom)
            /\ CreatePaymentIntent(w, u, k, FALSE, is_custom, custom, use_checkout, gateway_ok, NextPaymentId)
       \/ Return(w)

InitSpec == Init /\ [][InitNext]_vars

\* Catalog drift: one request at a time, one account buying "basic" with
\* and without a custom spec (a custom spec rewrites the package), and the
\* gateway confirming every payment.
DriftNext ==
  /\ UNCHANGED site
  /\ \E w \in Workers :
       \/ \E is_custom \in BOOLEAN, custom \in Customs, use_checkout \in BOOLEAN :
            /\ Alone(w)
            /\ (custom.given => is_custom)
            /\ CreatePaymentIntent(w, "u1", "basic", FALSE, is_custom, custom, use_checkout, TRUE,
                                   NextPaymentId)
       \/ \E ref \in Refs : Alone(w) /\ ConfirmLookup(w, "u1", ref)
       \/ \E has_intent \in BOOLEAN : ConfirmRetrieve(w, "paid", has_intent, "succeeded")
       \/ \E type \in {"payment_intent.succeeded", "checkout.session.completed"},
             n \in PayIds, has_intent \in BOOLEAN :
            Alone(w) /\ WebhookPost(w, "valid", type, n, has_intent, TRUE, FALSE)
       \/ SavePayment(w)
       \/ ReadBalance(w)
       \/ WriteBalance(w)
       \/ CreateTransaction(w)
       \/ CreateInvoice(w)
       \/ Commit(w)
       \/ DbError(w)
       \/ Return(w)

DriftSpec == Init /\ [][DriftNext]_vars

\* Two accounts, one purchase each, settled by concurrent workers; the first
\* eight hex digits of the payments' primary keys are free.
Hex8s == {1, 2}

CrossNext ==
  /\ UNCHANGED site
  /\ \E w \in Workers :
       \/ \E u \in Users, id_hex8 \in Hex8s :
            /\ \A p \in PayIds : payments[p].user # u
            /\ CreatePaymentIntent(w, u, "basic", FALSE, FALSE, NoCustom, FALSE, TRUE, id_hex8)
       \/ \E ref \in Refs : ConfirmLookup(w, payments[ref[2]].user, ref)
       \/ ConfirmRetrieve(w, "na", FALSE, "succeeded")
       \/ \E n \in PayIds :
            WebhookPost(w, "valid", "payment_intent.succeeded", n, FALSE, FALSE, FALSE)
       \/ SavePayment(w)
       \/ ReadBalance(w)
       \/ WriteBalance(w)
       \/ CreateTransaction(w)
       \/ CreateInvoice(w)
       \/ Commit(w)
       \/ DbError(w)
       \/ Return(w)

CrossSpec == Init /\ [][CrossNext]_vars

\* ======================================================== accounts app
\* UserViewSet (accounts/views.py).  No handler opens a transaction: every
\* query and every save() commits on its own, and between two statements of
\* one request the statements of another request may run.

NextTokenId == Cardinality({t \in TokIds : verifications[t].exists}) + 1

\* UserVerification.objects.create(user=user, expires_at=now + 24 hours)
NewVerification(u, handler) ==
  [exists |-> TRUE, user |-> u, expires_at |-> now + TokenLifetime,
   is_used |-> FALSE, issued_by |-> handler]

\* a lookup that tests the token and the expiry only
UsableIgnoringUsed(t) ==
  /\ t \in TokIds
  /\ verifications[t].exists
  /\ verifications[t].expires_at > now

\* filter(token=token, is_used=False, expires_at__gt=timezone.now()).first()
Usable(t) ==
  /\ t \in TokIds
  /\ verifications[t].exists
  /\ ~verifications[t].is_used
  /\ verifications[t].expires_at > now

Reply(w, t, code, message) ==
  work' = [work EXCEPT ![w] = [t EXCEPT !.pc = "done", !.code = code, !.message = message]]

\* UserViewSet.create: the serializer refuses an email that is taken; the
\* user row, its verification row and the mail follow.  A failure of
\* send_mail is logged and swallowed.
RegisterUser(w, u, password, mail_ok) ==
  /\ work[w].pc = "idle"
  /\ LET t == [NoWork EXCEPT !.op = "create", !.email = u]
     IN IF accounts[u].exists
        THEN /\ Reply(w, t, 400, "invalid")
             /\ UNCHANGED <<accounts, verifications>>
        ELSE /\ NextTokenId \in TokIds
             /\ accounts' = [accounts EXCEPT ![u] =
                               [exists |-> TRUE, is_verified |-> FALSE, password |-> password]]
             /\ verifications' = [verifications EXCEPT ![NextTokenId] = NewVerification(u, "create")]
             /\ Reply(w, [t EXCEPT !.token = NextTokenId,
                                   !.mail = IF mail_ok THEN "sent" ELSE "failed"],
                      201, "created")
  /\ UNCHANGED <<payflow, integ, balance, now>>

\* an answer that tells an unknown email apart
UnknownEmailNotFound == [code |-> 404, message |-> "no such account"]

\* the two 200 responses of request_password_reset
KnownEmailReply == [code |-> 200, message |-> "Password reset email sent if the email exists"]
UnknownEmailReply == [code |-> 200, message |-> "Password reset email sent if the email exists"]

\* UserViewSet.request_password_reset
RequestPasswordReset(w, email, mail_ok) ==
  /\ work[w].pc = "idle"
  /\ LET t == [NoWork EXCEPT !.op = "request_password_reset", !.email = email]
     IN IF email = MalformedEmail
        THEN /\ Reply(w, t, 400, "invalid")
             /\ UNCHANGED verifications
        ELSE IF accounts[email].exists
        THEN /\ NextTokenId \in TokIds
             /\ verifications' = [verifications EXCEPT ![NextTokenId] =
                                    NewVerification(email, "request_password_reset")]
             /\ Reply(w, [t EXCEPT !.token = NextTokenId,
                                   !.mail = IF mail_ok THEN "sent" ELSE "failed"],
                      KnownEmailReply.code, KnownEmailReply.message)
        ELSE /\ Reply(w, t, UnknownEmailReply.code, UnknownEmailReply.message)
             /\ UNCHANGED verifications
  /\ UNCHANGED <<payflow, integ, balance, accounts, now>>

\* verify_email up to its lookup
VerifyEmail(w, token) ==
  /\ work[w].pc = "idle"
  /\ LET t == [NoWork EXCEPT !.op = "verify_email", !.token = token]
     IN IF token = MissingToken THEN Reply(w, t, 400, "Token is required")
        ELSE IF token = MalformedToken THEN Reply(w, t, 400, "Invalid token format")
        ELSE IF ~Usable(token) THEN Reply(w, t, 400, "Invalid or expired token")
        ELSE work' = [work EXCEPT ![w] = [t EXCEPT !.pc = "a_fetch", !.ver = verifications[token]]]
  /\ UNCHANGED <<payflow, integ, balance, accounts, verifications, now>>

\* reset_password_confirm up to its lookup; valid: the serializer accepts
\* the token's format and the new password
ResetPasswordConfirm(w, token, new_password, valid) ==
  /\ work[w].pc = "idle"
  /\ LET t == [NoWork EXCEPT !.op = "reset_password_confirm", !.token = token,
                             !.new_password = new_password]
     IN IF ~valid \/ token \in {MissingToken, MalformedToken}
        THEN Reply(w, t, 400, "invalid")
        ELSE IF ~Usable(token) THEN Reply(w, t, 400, "Invalid or expired token")
        ELSE work' = [work EXCEPT ![w] = [t EXCEPT !.pc = "a_fetch", !.ver = verifications[token]]]
  /\ UNCHANGED <<payflow, integ, balance, accounts, verifications, now>>

\* user = verification.user (the row is fetched now), then the change made
\* to the instance: is_verified = True, or set_password(new_password)
FetchUser(w) ==
  /\ work[w].pc = "a_fetch"
  /\ LET u == work[w].ver.user
         row == [id |-> u, is_verified |-> accounts[u].is_verified,
                 password |-> accounts[u].password, balance |-> balance[u]]
     IN work' = [work EXCEPT ![w].pc = "a_user_save",
                             ![w].user = IF work[w].op = "verify_email"
                                         THEN [row EXCEPT !.is_verified = TRUE]
                                         ELSE [row EXCEPT !.password = work[w].new_password]]
  /\ UNCHANGED <<payflow, integ, balance, accounts, verifications, now>>

\* user.save(): every column of the instance is written
SaveUser(w) ==
  /\ work[w].pc = "a_user_save"
  /\ LET u == work[w].user.id
     IN /\ accounts' = [accounts EXCEPT ![u].is_verified = work[w].user.is_verified,
                                        ![u].password = work[w].user.password]
        /\ balance' = [balance EXCEPT ![u] = work[w].user.balance]
  /\ work' = [work EXCEPT ![w].pc = "a_ver_save"]
  /\ UNCHANGED <<payflow, integ, verifications, now>>

\* verification.is_used = True; verification.save(); the 200 response
SaveVerification(w) ==
  /\ work[w].pc = "a_ver_save"
  /\ verifications' = [verifications EXCEPT ![work[w].token] = [work[w].ver EXCEPT !.is_used = TRUE]]
  /\ Reply(w, [work[w] EXCEPT !.ver.is_used = TRUE], 200,
           IF work[w].op = "verify_email" THEN "Email verified successfully"
           ELSE "Password reset successfully")
  /\ UNCHANGED <<payflow, integ, balance, accounts, now>>

\* the response is sent
Finish(w) ==
  /\ work[w].pc = "done"
  /\ work' = [work EXCEPT ![w] = NoWork]
  /\ UNCHANGED <<payflow, integ, balance, accounts, verifications, now>>

\* time passes
Tick ==
  /\ now < MaxTime
  /\ now' = now + 1
  /\ UNCHANGED <<payflow, integ, balance, accounts, verifications, work>>

TokenInputs == TokIds \cup {MissingToken, MalformedToken}

\* Account u1 registers, asks for password resets and uses its tokens, two
\* workers running concurrently.
AcctNext ==
  \/ Tick
  \/ \E w \in Workers :
       \/ \E password \in {"p1"}, mail_ok \in BOOLEAN : RegisterUser(w, "u1", password, mail_ok)
       \/ \E email \in {"u1", "u2", MalformedEmail}, mail_ok \in BOOLEAN :
            RequestPasswordReset(w, email, mail_ok)
       \/ \E token \in TokenInputs : VerifyEmail(w, token)
       \/ \E token \in TokenInputs, valid \in BOOLEAN :
            ResetPasswordConfirm(w, token, "p2", valid)
       \/ FetchUser(w)
       \/ SaveUser(w)
       \/ SaveVerification(w)
       \/ Finish(w)

AcctSpec == Init /\ [][AcctNext]_vars

\* ==================================================== integrations app
\* WebhookReceiveView.post (integrations/views.py): the endpoint row is read
\* first; a path that names no active endpoint is answered 404.
ReceiveWebhook(w, path) ==
  /\ work[w].pc = "idle"
  /\ events[path] < MaxDeliveries
  /\ LET t == [NoWork EXCEPT !.op = "webhook_receive", !.path = path]
     IN IF endpoints[path].exists /\ endpoints[path].is_active
        THEN work' = [work EXCEPT ![w] = [t EXCEPT !.pc = "h_count",
                                                   !.endpoint = endpoints[path].call_count]]
        ELSE Reply(w, t, 404, "Invalid webhook endpoint")
  /\ UNCHANGED <<payflow, balance, acct, integ>>

\* endpoint.call_count += 1 on the instance read at the lookup
Counted(w) == work[w].endpoint + 1

\* with transaction.atomic(): endpoint.call_count += 1;
\* endpoint.save(update_fields=["last_called_at", "call_count"])
CountCall(w) ==
  /\ work[w].pc = "h_count"
  /\ endpoints' = [endpoints EXCEPT ![work[w].path].call_count = Counted(w)]
  /\ work' = [work EXCEPT ![w].pc = "h_event", ![w].endpoint = Counted(w)]
  /\ UNCHANGED <<payflow, balance, acct, events, integrations, logs>>

\* WebhookEvent.objects.create(...), the event marked processed, the 200
CreateEvent(w) ==
  /\ work[w].pc = "h_event"
  /\ events' = [events EXCEPT ![work[w].path] = @ + 1]
  /\ Reply(w, work[w], 200, "success")
  /\ UNCHANGED <<payflow, balance, acct, endpoints, integrations, logs>>

\* Deliveries to the three endpoint paths, two workers running concurrently.
HookNext ==
  \E w \in Workers :
    \/ \E path \in EpIds : ReceiveWebhook(w, path)
    \/ CountCall(w)
    \/ CreateEvent(w)
    \/ Finish(w)

HookSpec == Init /\ [][HookNext]_vars

\* ExternalAPIService.make_api_call (integrations/services/external_api_service.py)
Methods == {"GET", "post", "HEAD"}
Upper(method) ==
  CASE method = "post" -> "POST"
    [] OTHER -> method
Supported(method) == Upper(method) \in {"GET", "POST", "PUT", "PATCH", "DELETE"}

\* up to IntegrationLog.objects.create(..., status="error"); has_url: the
\* system or the config gives a base URL
MakeApiCall(w, i, method, has_url) ==
  /\ work[w].pc = "idle"
  /\ Len(logs) < MaxCalls
  /\ LET t == [NoWork EXCEPT !.op = "make_api_call", !.method = method,
                             !.integration = integrations[i]]
     IN IF ~has_url
        THEN /\ work' = [work EXCEPT ![w] = [t EXCEPT !.pc = "done", !.outcome = "raised",
                                                      !.message = "ValueError"]]
             /\ UNCHANGED logs
        ELSE /\ logs' = Append(logs, [integration |-> i, status |-> "error"])
             /\ work' = [work EXCEPT ![w] = [t EXCEPT !.pc = "x_request", !.log = Len(logs) + 1]]
  /\ UNCHANGED <<payflow, balance, acct, endpoints, events, integrations>>

\* the request itself; answer: what requests does ("ok", or a
\* RequestException: "http_error" from raise_for_status, "unreachable").
\* An unsupported method raises ValueError, which no except clause of
\* the function catches.
SendRequest(w, answer) ==
  /\ work[w].pc = "x_request"
  /\ IF ~Supported(work[w].method)
     THEN /\ work' = [work EXCEPT ![w].pc = "done", ![w].outcome = "raised",
                                  ![w].message = "ValueError"]
          /\ UNCHANGED logs
     ELSE IF answer = "ok"
     THEN /\ logs' = [logs EXCEPT ![work[w].log].status = "success"]
          /\ work' = [work EXCEPT ![w].pc = "x_refresh", ![w].message = "ok"]
     ELSE /\ logs' = [logs EXCEPT ![work[w].log].status = "error"]
          /\ work' = [work EXCEPT ![w].pc = "x_refresh", ![w].message = answer]
  /\ UNCHANGED <<payflow, balance, acct, endpoints, events, integrations>>

\* with transaction.atomic(): integration.refresh_from_db()
RefreshIntegration(w, i) ==
  /\ work[w].pc = "x_refresh"
  /\ logs[work[w].log].integration = i
  /\ work' = [work EXCEPT ![w].pc = "x_save", ![w].integration = integrations[i]]
  /\ UNCHANGED <<payflow, balance, acct, integ>>

\* sync_count += 1, or error_count += 1 and last_error = str(e); save();
\* the function returns the response data or re-raises
SaveIntegration(w, i) ==
  /\ work[w].pc = "x_save"
  /\ logs[work[w].log].integration = i
  /\ LET inst == IF work[w].message = "ok"
                 THEN [work[w].integration EXCEPT !.sync_count = @ + 1]
                 ELSE [work[w].integration EXCEPT !.error_count = @ + 1,
                                                  !.last_error = work[w].message]
     IN /\ integrations' = [integrations EXCEPT ![i] =
                              IF work[w].message = "ok"
                              THEN [@ EXCEPT !.sync_count = inst.sync_count]
                              ELSE [@ EXCEPT !.error_count = inst.error_count,
                                             !.last_error = inst.last_error]]
        /\ work' = [work EXCEPT ![w].pc = "done", ![w].integration = inst,
                                ![w].outcome = IF work[w].message = "ok"
                                               THEN "returned" ELSE "raised"]
  /\ UNCHANGED <<payflow, balance, acct, endpoints, events, logs>>

\* one call at a time
Free(w) == \A v \in Workers \ {w} : work[v].pc = "idle"

ApiNext ==
  \E w \in Workers, i \in IntegIds :
    \/ \E method \in Methods, has_url \in BOOLEAN : Free(w) /\ MakeApiCall(w, i, method, has_url)
    \/ \E answer \in {"ok", "http_error", "unreachable"} : SendRequest(w, answer)
    \/ RefreshIntegration(w, i)
    \/ SaveIntegration(w, i)
    \/ Finish(w)

ApiSpec == Init /\ [][ApiNext]_vars

\* ================================================ subscription webhooks
\* StripeService.handle_webhook_event (payments/services/stripe_service.py)

\* the columns of Payment (payments/models.py)
PaymentFields ==
  {"id", "user", "token_package", "subscription", "amount", "currency",
   "payment_method", "token_amount", "status", "stripe_payment_intent_id",
   "stripe_charge_id", "description", "metadata", "created_at", "updated_at"}

\* the keyword arguments _handle_payment_succeeded and _handle_payment_failed
\* pass to Payment.objects.create
InvoiceKwargs ==
  {"user", "subscription", "amount", "currency", "payment_method",
   "payment_type", "status", "stripe_payment_intent_id", "description", "metadata"}

\* Model.__init__ raises TypeError for a keyword that names no field
Accepts(fields, kwargs) == kwargs \subseteq fields

SubscriptionEvents ==
  {"customer.subscription.created", "invoice.payment_succeeded",
   "invoice.payment_failed", "charge.refunded"}

\* the rows _handle_payment_succeeded / _handle_payment_failed write for
\* customer u and invoice n; token_package stays null
InvoicePayment(u, n, status) ==
  [NoPayment EXCEPT !.exists = TRUE, !.user = u, !.amount = 1, !.status = status,
                    !.spi = Pi(n), !.hex8 = NextPaymentId]

\* sig_ok: construct_event accepts the signature; customer: the user whose
\* stripe_customer_id the invoice names, NoUser when there is none; n: the
\* invoice.  _handle_payment_succeeded and _handle_payment_failed catch and
\* log every exception; handle_webhook_event then returns status success.
\* The subscription handlers write Subscription rows only.
HandleWebhookEvent(w, sig_ok, type, customer, n) ==
  /\ work[w].pc = "idle"
  /\ LET t == [NoWork EXCEPT !.op = "handle_webhook_event"]
         e == [t EXCEPT !.type = type, !.customer = customer, !.token = n]
         status == IF type = "invoice.payment_succeeded" THEN "completed" ELSE "failed"
     IN IF ~sig_ok
        THEN /\ work' = [work EXCEPT ![w] = [t EXCEPT !.pc = "done", !.outcome = "raised",
                                                      !.message = "SignatureVerificationError"]]
             /\ UNCHANGED <<payments, invoices>>
        ELSE IF type \notin {"invoice.payment_succeeded", "invoice.payment_failed"}
        THEN /\ work' = [work EXCEPT ![w] = [e EXCEPT !.pc = "done", !.outcome = "returned",
                                                      !.message = "success"]]
             /\ UNCHANGED <<payments, invoices>>
        ELSE /\ work' = [work EXCEPT ![w] = [e EXCEPT !.pc = "done", !.outcome = "returned",
                                                      !.message = "success"]]
             /\ IF customer = NoUser \/ ~Accepts(PaymentFields, InvoiceKwargs)
                   \/ NextPaymentId \notin PayIds
                THEN UNCHANGED <<payments, invoices>>
                ELSE /\ payments' = [payments EXCEPT ![NextPaymentId] =
                                       InvoicePayment(customer, n, status)]
                     /\ invoices' = IF type = "invoice.payment_succeeded"
                                    THEN invoices \cup {[user |-> customer, status |-> "paid",
                                                         payment |-> NextPaymentId,
                                                         invoice_number |-> n]}
                                    ELSE invoices
  /\ UNCHANGED <<packages, balance, transactions, pc, req, obj, usr, resp, gateway,
                 api_key, acct, integ>>

SubNext ==
  \E w \in Workers :
    \/ \E sig_ok \in BOOLEAN, type \in SubscriptionEvents,
          customer \in Users \cup {NoUser}, n \in PayIds :
         HandleWebhookEvent(w, sig_ok, type, customer, n)
    \/ Finish(w)

SubSpec == Init /\ [][SubNext]_vars

TypeOK ==
  /\ \A p \in PayIds : payments[p].status \in {"none", "pending", "completed", "failed"}
  /\ \A w \in Workers : pc[w] \in {"idle", "done", "c_retrieve", "f_save", "t_save",
                                   "t_read", "t_write", "t_txn", "t_inv", "t_commit"}

\* ============================================================== claims
SuccessKinds == {"confirm", "wh_succeeded", "wh_checkout"}
SettlementSteps == {"t_save", "t_read", "t_write", "t_txn", "t_inv", "t_commit"}
TxnOf(p) == transactions[CHOOSE i \in TransactionsOf(p) : TRUE]
Settles(p) == payments[p].status = "pending" /\ payments'[p].status = "completed"
\* the references a request names
Named(r) == {r.ref, r.pi} \ {NoRef}

\* C1: with requests handled one after another, a success settlement takes a
\* payment from pending to completed, raises the owner's balance by
\* token_amount and writes exactly one Transaction and one Invoice; nothing
\* else changes balance, Transactions or Invoices; a completed payment and
\* its records never change again, and a later success-settlement request
\* that names a completed payment ends at its lookup and changes nothing.
C1_SettleOnce ==
  [][/\ \A p \in PayIds :
          /\ Settles(p) =>
               /\ balance'[payments[p].user] = balance[payments[p].user] + payments[p].token_amount
               /\ TransactionsOf(p) = {} /\ Cardinality(TransactionsOf(p)') = 1
               /\ InvoicesOf(p) = {} /\ Cardinality(InvoicesOf(p)') = 1
               /\ Len(transactions') = Len(transactions) + 1
               /\ Cardinality(invoices') = Cardinality(invoices) + 1
          /\ payments[p].status = "completed" =>
               /\ payments'[p] = payments[p]
               /\ TransactionsOf(p)' = TransactionsOf(p)
               /\ InvoicesOf(p)' = InvoicesOf(p)
     /\ (balance' # balance \/ transactions' # transactions \/ invoices' # invoices)
          => \E p \in PayIds : Settles(p)
     /\ \A w \in Workers :
          (/\ pc[w] = "idle" /\ pc'[w] # "idle"
           /\ req'[w].kind \in SuccessKinds
           /\ \E p \in PayIds : /\ payments[p].status = "completed"
                                /\ payments[p].spi \in Named(req'[w]))
          => (pc'[w] = "done" /\ obj'[w] = NoObj /\ db' = db)
    ]_vars

\* a later invocation for a settled payment has ended without loading it
C1_Witness ==
  \E w \in Workers, p \in PayIds :
    /\ pc[w] = "done" /\ req[w].kind \in SuccessKinds /\ obj[w] = NoObj
    /\ payments[p].status = "completed" /\ payments[p].spi \in Named(req[w])
    /\ Cardinality(TransactionsOf(p)) = 1 /\ Cardinality(InvoicesOf(p)) = 1
    /\ balance[payments[p].user] = payments[p].token_amount

\* C2: for every account, balance equals the sum of the signed amounts of
\* the account's Transactions, in every reachable state.
C2_BalanceEqualsLedger == \A u \in Users : balance[u] = LedgerSum(u)

\* C3: when two success settlements (client confirmation and a webhook
\* handler) overlap on the same pending payment, the payment is credited
\* once: never two Transactions or Invoices for it; the commit of the one
\* that wins adds one Transaction of token_amount and, no other payment of
\* the account having been credited since it read the balance, raises the
\* balance by token_amount; the one that loses changes nothing; once both have ended
\* without a database error the payment is completed with exactly one
\* Transaction and one Invoice, one handler having committed and the other
\* rolled back.
Racing(w, p) == pc[w] # "idle" /\ req[w].kind \in SuccessKinds /\ obj[w].id = p
\* w entered the settlement of p (its in-memory payment is marked completed)
Settling(w, p) == Racing(w, p) /\ obj[w].row.status = "completed"
Ended(w) == pc[w] = "done" /\ resp[w].error # "DatabaseError"

C3_RaceInvariant ==
  \A p \in PayIds :
    /\ Cardinality(TransactionsOf(p)) <= 1
    /\ Cardinality(InvoicesOf(p)) <= 1
    /\ \A w \in Workers, v \in Workers :
         (w # v /\ Settling(w, p) /\ Settling(v, p) /\ Ended(w) /\ Ended(v)) =>
           /\ payments[p].status = "completed"
           /\ Cardinality(TransactionsOf(p)) = 1
           /\ Cardinality(InvoicesOf(p)) = 1
           /\ TxnOf(p).amount = payments[p].token_amount
           /\ TxnOf(p).balance_after = TxnOf(p).balance_before + payments[p].token_amount
           /\ balance[payments[p].user] = TxnOf(p).balance_after
           /\ (resp[w].code = 200) # (resp[v].code = 200)

C3_RaceStep ==
  \A w \in Workers :
    /\ (/\ pc[w] = "t_commit" /\ pc'[w] = "done"
        /\ \E v \in Workers \ {w} : Racing(v, obj[w].id))
       => LET p == obj[w].id
              u == payments[p].user
          IN /\ payments[p].status = "pending" /\ payments'[p].status = "completed"
             /\ TransactionsOf(p) = {} /\ InvoicesOf(p) = {}
             /\ Len(transactions') = Len(transactions) + 1
             /\ transactions'[Len(transactions')].amount = payments[p].token_amount
             /\ balance[u] = usr[w].balance_before
                  => balance'[u] = balance[u] + payments[p].token_amount
    /\ (/\ pc[w] = "t_inv" /\ pc'[w] = "done"
        /\ \E v \in Workers \ {w} : Racing(v, obj[w].id))
       => db' = db

C3_RaceCreditsOnce == [](C3_RaceInvariant) /\ [][C3_RaceStep]_vars

\* a confirmation and a webhook handler raced on one payment: one committed,
\* the other was stopped by the invoice's one-to-one constraint
C3_Witness ==
  \E w \in Workers, v \in Workers, p \in PayIds :
    /\ w # v /\ Settling(w, p) /\ Settling(v, p)
    /\ req[w].kind = "confirm" /\ req[v].kind \in {"wh_succeeded", "wh_checkout"}
    /\ pc[w] = "done" /\ pc[v] = "done"
    /\ {resp[w].code, resp[v].code} = {200, 500}
    /\ {resp[w].error, resp[v].error} = {"none", "IntegrityError"}
    /\ Cardinality(TransactionsOf(p)) = 1

\* C4: a payment whose status is failed has no Transaction and no Invoice
\* (the failure settlement wins only when no credit was written).
C4_FailedHasNoCredit ==
  \A p \in PayIds :
    payments[p].status = "failed" => (TransactionsOf(p) = {} /\ InvoicesOf(p) = {})

\* C5: a status of completed or failed never changes again.
C5_TerminalIsFinal ==
  [][\A p \in PayIds :
       payments[p].status \in {"completed", "failed"}
         => payments'[p].status = payments[p].status]_vars

\* C6: every Invoice refers to a completed Payment, and no Payment has more
\* than one Invoice.
C6_InvoiceOnlyForCompleted ==
  \A inv \in invoices :
    /\ payments[inv.payment].status = "completed"
    /\ Cardinality(InvoicesOf(inv.payment)) = 1

\* C7: settlement is all-or-nothing.  A settlement statement that raises
\* leaves the committed tables as they were; and in every committed state a
\* completed payment has exactly one Transaction and one Invoice, a payment
\* has a Transaction exactly when it has an Invoice and then is no longer
\* pending, and an account's balance is the balance_after of its latest
\* Transaction (0 when it has none).
LastOf(u) ==
  LET I == {i \in 1..Len(transactions) : transactions[i].user = u}
  IN IF I = {} THEN 0 ELSE CHOOSE i \in I : \A j \in I : j <= i

C7_Committed ==
  /\ \A p \in PayIds :
       /\ payments[p].status = "completed" =>
            (Cardinality(TransactionsOf(p)) = 1 /\ Cardinality(InvoicesOf(p)) = 1)
       /\ Cardinality(TransactionsOf(p)) = Cardinality(InvoicesOf(p))
       /\ TransactionsOf(p) # {} => payments[p].status \in {"completed", "failed"}
  /\ \A u \in Users :
       balance[u] = IF LastOf(u) = 0 THEN 0 ELSE transactions[LastOf(u)].balance_after

C7_FailedStep ==
  \A w \in Workers :
    (pc[w] \in SettlementSteps /\ pc'[w] = "done" /\ resp'[w].error # "none")
      => db' = db

C7_AllOrNothing == [](C7_Committed) /\ [][C7_FailedStep]_vars

\* a settlement failed after its balance write and left the payment pending
C7_Witness ==
  \E w \in Workers :
    /\ pc[w] = "done" /\ resp[w].error = "DatabaseError"
    /\ req[w].kind \in SuccessKinds
    /\ obj[w].row.status = "completed" /\ usr[w].id # NoUser
    /\ payments[obj[w].id].status = "pending"
    /\ balance[usr[w].id] = usr[w].balance_before
    /\ TransactionsOf(obj[w].id) = {} /\ InvoicesOf(obj[w].id) = {}

\* C8: round trip, requests one after another.  A successful initiation
\* stores a pending payment with the package's token_amount t and touches no
\* balance, Transaction or Invoice; the confirmation that settles it turns
\* balance b into b + t, completes the payment, appends exactly the
\* Transaction (purchase, t, b, b + t, payment id) and adds exactly one paid
\* Invoice of that payment, and answers 200 with new_balance = b + t.
C8_RoundTripStep ==
  \A w \in Workers :
    /\ (pc[w] = "idle" /\ req'[w].kind = "create" /\ resp'[w].code = 200) =>
         LET p == obj'[w].id
         IN /\ ~payments[p].exists
            /\ payments'[p].status = "pending"
            /\ payments'[p].token_amount = packages[payments'[p].pkg].token_amount
            /\ balance' = balance /\ transactions' = transactions
            /\ invoices' = invoices
    /\ (req[w].kind = "confirm" /\ pc[w] # "done" /\ pc'[w] = "done" /\ resp'[w].code = 200) =>
         LET p == obj[w].id
             u == payments[p].user
             b == balance[u]
             t == packages[payments[p].pkg].token_amount
         IN /\ payments[p].status = "pending" /\ payments'[p].status = "completed"
            /\ balance'[u] = b + t
            /\ resp'[w].new_balance = b + t
            /\ transactions' = Append(transactions,
                 [user |-> u, transaction_type |-> "purchase", amount |-> t,
                  balance_before |-> b, balance_after |-> b + t, reference_id |-> p])
            /\ InvoicesOf(p) = {}
            /\ \E inv \in invoices' :
                 /\ invoices' = invoices \cup {inv}
                 /\ inv.payment = p /\ inv.status = "paid" /\ inv.user = u

C8_RoundTrip == [][C8_RoundTripStep]_vars

\* a confirmation has settled a purchase made on a non-zero balance
C8_Witness ==
  \E w \in Workers :
    /\ pc[w] = "done" /\ req[w].kind = "confirm" /\ resp[w].code = 200
    /\ usr[w].balance_before > 0
    /\ resp[w].new_balance = usr[w].balance_before + obj[w].row.token_amount
    /\ balance[usr[w].id] = resp[w].new_balance
    /\ payments[obj[w].id].status = "completed"

\* C9: every Transaction has balance_after = balance_before + amount, and
\* the Transactions of an account form a chain: each balance_before is the
\* balance_after of the account's previous Transaction (0 for the first).
C9_LedgerChain ==
  \A i \in 1..Len(transactions) :
    LET e == transactions[i]
        J == {j \in 1..(i - 1) : transactions[j].user = e.user}
        prev == IF J = {} THEN 0
                ELSE transactions[CHOOSE j \in J : \A k \in J : k <= j].balance_after
    IN /\ e.balance_after = e.balance_before + e.amount
       /\ e.balance_before = prev

\* C10: a confirmation is inside its settlement only if the gateway reported
\* the intent as succeeded or the session as paid.
C10_SettlesOnlyIfGatewaySucceeded ==
  \A w \in Workers :
    (req[w].kind = "confirm" /\ pc[w] \in SettlementSteps) => req[w].verified

\* C11: when a gateway retrieve call of a confirmation failed or timed out,
\* no step of that confirmation changes a stored payment, a balance, a
\* Transaction or an Invoice: the payment stays pending.
C11_GatewayErrorLeavesPending ==
  [][\A w \in Workers :
       (req'[w].kind = "confirm" /\ req'[w].gw_error)
         => (/\ payments' = payments /\ balance' = balance
             /\ transactions' = transactions /\ invoices' = invoices
             /\ payments[obj[w].id].status = "pending")]_vars

\* C12: a webhook request whose signature header is missing or does not
\* verify is answered 400 at once and writes nothing: the request that
\* carries it changes no payment, balance, Transaction or Invoice, and its
\* only further step is sending the response.
Unsigned == {"missing", "invalid"}

C12_UnsignedRejected ==
  [][\A w \in Workers :
       /\ (pc[w] = "idle" /\ req'[w].sig \in Unsigned) =>
            (pc'[w] = "done" /\ resp'[w].code = 400 /\ obj'[w] = NoObj /\ db' = db)
       /\ (req[w].sig \in Unsigned /\ pc'[w] # pc[w]) =>
            (pc[w] = "done" /\ pc'[w] = "idle" /\ db' = db)]_vars

\* a request with a bad signature was refused while a payment was pending
C12_Witness ==
  \E w \in Workers, p \in PayIds :
    /\ pc[w] = "done" /\ req[w].sig = "invalid" /\ resp[w].code = 400
    /\ payments[p].status = "pending"
    /\ transactions = <<>> /\ invoices = {}

\* C13: a webhook request that passed signature verification is answered
\* 200 (the database itself not failing), whatever the event and the
\* state, also when it runs at the same time as a confirmation.
C13_VerifiedAnswered200 ==
  \A w \in Workers :
    (req[w].sig = "valid" /\ pc[w] = "done" /\ resp[w].error # "DatabaseError")
      => resp[w].code = 200

\* C14: with requests handled one after another, a verified payment-succeeded
\* (or checkout-completed) event that names a payment already completed is
\* answered 200 without loading the payment and changes nothing; no payment
\* ever has a second Transaction or a second Invoice.
C14_SecondDeliveryStep ==
  /\ \A p \in PayIds :
       /\ Cardinality(TransactionsOf(p)') <= 1
       /\ Cardinality(InvoicesOf(p)') <= 1
  /\ \A w \in Workers :
       (/\ pc[w] = "idle" /\ req'[w].sig = "valid"
        /\ req'[w].kind \in {"wh_succeeded", "wh_checkout"}
        /\ \E p \in PayIds : /\ payments[p].status = "completed"
                             /\ payments[p].spi \in Named(req'[w]))
       => (/\ pc'[w] = "done" /\ resp'[w].code = 200 /\ obj'[w] = NoObj
           /\ db' = db)

C14_SecondDelivery == [][C14_SecondDeliveryStep]_vars

\* the event of a settled payment was delivered again and answered 200
C14_Witness ==
  \E w \in Workers, p \in PayIds :
    /\ pc[w] = "done" /\ req[w].type = "payment_intent.succeeded"
    /\ req[w].sig = "valid" /\ resp[w].code = 200 /\ obj[w] = NoObj
    /\ payments[p].status = "completed" /\ payments[p].spi = req[w].ref
    /\ Cardinality(TransactionsOf(p)) = 1 /\ Cardinality(InvoicesOf(p)) = 1
    /\ balance[payments[p].user] = TxnOf(p).balance_after

\* C15: a verified event of any other type than payment_intent.succeeded,
\* payment_intent.payment_failed and checkout.session.completed is answered
\* 200 at once and leaves payments, balances, Transactions and Invoices
\* unchanged.
HandledTypes == {"payment_intent.succeeded", "payment_intent.payment_failed",
                 "checkout.session.completed"}

C15_OtherEventIgnored ==
  [][\A w \in Workers :
       (pc[w] = "idle" /\ req'[w].sig = "valid" /\ req'[w].type \notin HandledTypes)
         => (pc'[w] = "done" /\ resp'[w].code = 200 /\ obj'[w] = NoObj /\ db' = db)]_vars

\* an event of another type named a pending payment and was ignored
C15_Witness ==
  \E w \in Workers, p \in PayIds :
    /\ pc[w] = "done" /\ req[w].sig = "valid" /\ req[w].type = "customer.created"
    /\ resp[w].code = 200
    /\ payments[p].status = "pending" /\ payments[p].spi = req[w].ref

\* C16: with requests handled one after another, no step of the failure
\* handler changes a balance, a Transaction, an Invoice or a package; the
\* only payment it changes is the pending payment its event names, and of
\* that only the status, to failed; an event that names no pending payment
\* (completed, failed or unknown) is answered at once and changes nothing.
C16_FailureFrameStep ==
  \A w \in Workers :
    /\ (req[w].kind = "wh_failed" \/ req'[w].kind = "wh_failed") =>
         /\ balance' = balance /\ transactions' = transactions
         /\ invoices' = invoices /\ packages' = packages
         /\ \A p \in PayIds :
              payments'[p] # payments[p] =>
                /\ payments[p].status = "pending"
                /\ payments[p].spi = req[w].ref
                /\ payments'[p] = [payments[p] EXCEPT !.status = "failed"]
    /\ (/\ pc[w] = "idle" /\ req'[w].kind = "wh_failed"
        /\ \A p \in PayIds :
             payments[p].spi = req'[w].ref => payments[p].status # "pending")
       => (pc'[w] = "done" /\ resp'[w].code = 200 /\ db' = db)

C16_FailureFrame == [][C16_FailureFrameStep]_vars

\* the failure handler has marked a pending payment failed
C16_Witness ==
  \E w \in Workers :
    /\ pc[w] = "done" /\ req[w].kind = "wh_failed" /\ resp[w].code = 200
    /\ obj[w].id \in PayIds
    /\ payments[obj[w].id].status = "failed"
    /\ payments[obj[w].id].spi = req[w].ref
    /\ TransactionsOf(obj[w].id) = {} /\ InvoicesOf(obj[w].id) = {}
    /\ balance[payments[obj[w].id].user] = LedgerSum(payments[obj[w].id].user)

\* C17: a confirmation that names a completed payment is answered 200 with
\* new_balance equal to the balance the payment's settlement produced.
C17_AlreadySettledIsSuccess ==
  \A w \in Workers, p \in PayIds :
    (/\ pc[w] = "done" /\ req[w].kind = "confirm"
     /\ payments[p].status = "completed" /\ payments[p].spi = req[w].ref
     /\ Cardinality(TransactionsOf(p)) = 1)
    => (resp[w].code = 200 /\ resp[w].new_balance = TxnOf(p).balance_after)

\* C18: the gateway call of a confirmation is made with the credential of
\* the payment's own mode.
C18_OwnCredential ==
  \A w \in Workers :
    (req[w].kind = "confirm" /\ req[w].key # "none")
      => req[w].key = KeyFor(obj[w].row.test_mode)

\* C19: a successful purchase initiation adds exactly one Payment and
\* changes no other: pending, owned by the caller, its provider reference
\* the id of the object the gateway created (session id in the checkout
\* flow, intent id otherwise), amount and token_amount those of the
\* package; balances, Transactions and Invoices are unchanged.  Nothing
\* else creates or changes a Payment during initiation.
C19_InitiationStep ==
  /\ \A w \in Workers :
       (pc[w] = "idle" /\ req'[w].kind = "create" /\ resp'[w].code = 200) =>
         LET p == obj'[w].id
         IN /\ p \in PayIds /\ ~payments[p].exists
            /\ \A q \in PayIds \ {p} : payments'[q] = payments[q]
            /\ payments'[p].exists
            /\ payments'[p].status = "pending"
            /\ payments'[p].user = req'[w].user
            /\ gateway[p] = "none" /\ gateway'[p] \in {"intent", "session"}
            /\ payments'[p].spi = IF gateway'[p] = "session" THEN Cs(p) ELSE Pi(p)
            /\ payments'[p].amount = packages'[payments'[p].pkg].price
            /\ payments'[p].token_amount = packages'[payments'[p].pkg].token_amount
            /\ balance' = balance /\ transactions' = transactions
            /\ invoices' = invoices
  /\ payments' # payments =>
       \E w \in Workers : pc[w] = "idle" /\ req'[w].kind = "create" /\ resp'[w].code = 200

C19_InitiationCreatesPending == [][C19_InitiationStep]_vars

\* a custom purchase through the checkout flow has been initiated
C19_Witness ==
  \E w \in Workers :
    /\ pc[w] = "done" /\ req[w].kind = "create" /\ resp[w].code = 200
    /\ obj[w].id \in PayIds
    /\ payments[obj[w].id] = obj[w].row
    /\ payments[obj[w].id].status = "pending"
    /\ payments[obj[w].id].pkg = "adhoc"
    /\ payments[obj[w].id].spi = Cs(obj[w].id)
    /\ payments[obj[w].id].token_amount = DefaultTokenAmount
    /\ payments[obj[w].id].user = "u2"

\* C20: a purchase initiation answered with a 4xx status changes no
\* Payment, TokenPackage, balance, Transaction or Invoice.
C20_RejectedInitiationWritesNothing ==
  [][\A w \in Workers :
       (pc[w] = "idle" /\ req'[w].kind = "create" /\ resp'[w].code \in 400..499)
         => db' = db]_vars

\* C21: a pending Payment always refers to a TokenPackage that is active
\* (during initiation no package is ever deactivated, so this is the
\* package's state when the payment was created).
C21_PendingOnlyForActivePackage ==
  \A p \in PayIds :
    payments[p].status = "pending" => packages[payments[p].pkg].is_active

\* C22: purchase initiation never changes the token_amount or the price of
\* a TokenPackage that exists already.
C22_CatalogPackageUnchanged ==
  [][\A k \in PkgIds :
       packages[k].exists =>
         /\ packages'[k].token_amount = packages[k].token_amount
         /\ packages'[k].price = packages[k].price]_vars

\* C23: the amount and token_amount of a Payment never change once it
\* exists, whatever happens to its TokenPackage, and the settlement of a
\* payment raises the balance by, and records a Transaction of, the
\* token_amount stored on the Payment.
C23_SnapshotStep ==
  \A p \in PayIds :
    /\ payments[p].exists =>
         /\ payments'[p].amount = payments[p].amount
         /\ payments'[p].token_amount = payments[p].token_amount
    /\ Settles(p) =>
         /\ balance'[payments[p].user] = balance[payments[p].user] + payments[p].token_amount
         /\ Len(transactions') = Len(transactions) + 1
         /\ transactions'[Len(transactions')].amount = payments[p].token_amount
         /\ transactions'[Len(transactions')].reference_id = p

C23_AmountsAreSnapshots == [][C23_SnapshotStep]_vars

\* a payment was settled after its package had been rewritten
C23_Witness ==
  \E p \in PayIds :
    /\ payments[p].status = "completed"
    /\ payments[p].token_amount # packages[payments[p].pkg].token_amount
    /\ payments[p].amount # packages[payments[p].pkg].price
    /\ Cardinality(TransactionsOf(p)) = 1
    /\ TxnOf(p).amount = payments[p].token_amount
    /\ TxnOf(p).balance_before = 0
    /\ balance[payments[p].user] = payments[p].token_amount

\* C24: a verified payment_intent.succeeded event starts the settlement of
\* the pending payment of its intent, whether the payment is stored under
\* the intent id or under the id of the checkout session that produced the
\* intent (session cs_<n> produces intent pi_<n>).
C24_SucceededEventSettlesEitherRef ==
  [][\A w \in Workers, p \in PayIds :
       (/\ pc[w] = "idle" /\ req'[w].sig = "valid"
        /\ req'[w].type = "payment_intent.succeeded"
        /\ payments[p].status = "pending"
        /\ payments[p].spi \in {req'[w].ref, Cs(req'[w].ref[2])})
       => (pc'[w] = "t_save" /\ obj'[w].id = p)]_vars

\* C25: with requests handled one after another, a verified
\* checkout.session.completed event whose session is not paid is answered at
\* once and changes nothing; one whose session is paid starts the settlement
\* of the pending payment stored under the session id or the session's
\* intent id; when that settlement commits, the payment is completed and its
\* stored reference is the session's intent id if the event carries one
\* (unchanged otherwise); and a payment_intent.succeeded event that names
\* the reference of a completed payment is answered at once and changes
\* nothing.
C25_CheckoutStep ==
  \A w \in Workers :
    /\ (/\ pc[w] = "idle" /\ req'[w].sig = "valid"
        /\ req'[w].type = "checkout.session.completed" /\ ~req'[w].paid)
       => (pc'[w] = "done" /\ resp'[w].code = 200 /\ db' = db)
    /\ \A p \in PayIds :
         (/\ pc[w] = "idle" /\ req'[w].sig = "valid"
          /\ req'[w].type = "checkout.session.completed" /\ req'[w].paid
          /\ payments[p].status = "pending" /\ payments[p].spi \in Named(req'[w]))
         => (pc'[w] = "t_save" /\ obj'[w].id = p)
    /\ (req[w].kind = "wh_checkout" /\ pc[w] = "t_commit" /\ pc'[w] = "done") =>
         LET p == obj[w].id
         IN /\ payments[p].status = "pending" /\ payments'[p].status = "completed"
            /\ payments'[p].spi = IF req[w].pi # NoRef THEN req[w].pi
                                  ELSE payments[p].spi
            /\ balance'[payments[p].user] = balance[payments[p].user] + payments[p].token_amount
    /\ (/\ pc[w] = "idle" /\ req'[w].sig = "valid"
        /\ req'[w].type = "payment_intent.succeeded"
        /\ \E p \in PayIds : /\ payments[p].status = "completed"
                             /\ payments[p].spi = req'[w].ref)
       => (pc'[w] = "done" /\ resp'[w].code = 200 /\ db' = db)

C25_CheckoutCompleted == [][C25_CheckoutStep]_vars

\* a paid checkout event has settled a payment stored under the session id
\* and left it under the intent id
C25_Witness ==
  \E w \in Workers :
    /\ pc[w] = "done" /\ req[w].kind = "wh_checkout" /\ req[w].paid
    /\ resp[w].code = 200 /\ obj[w].id \in PayIds
    /\ gateway[obj[w].id] = "session"
    /\ req[w].ref = Cs(obj[w].id) /\ req[w].pi = Pi(obj[w].id)
    /\ payments[obj[w].id].status = "completed"
    /\ payments[obj[w].id].spi = Pi(obj[w].id)
    /\ Cardinality(TransactionsOf(obj[w].id)) = 1

\* C26: the settlement of a payment of one account leaves the balance, the
\* Transactions and the Invoices of every other account unchanged, and its
\* outcome does not depend on another account's records: its Invoice
\* insert is refused only on account of an Invoice of the same account.
C26_CrossAccountStep ==
  /\ \A p \in PayIds :
       Settles(p) =>
         \A u \in Users \ {payments[p].user} :
           /\ balance'[u] = balance[u]
           /\ \A i \in 1..Len(transactions) : transactions'[i] = transactions[i]
           /\ transactions'[Len(transactions')].user # u
           /\ {inv \in invoices' : inv.user = u} = {inv \in invoices : inv.user = u}
  /\ \A w \in Workers :
       (pc[w] = "t_inv" /\ pc'[w] = "done" /\ resp'[w].error = "IntegrityError")
         => \E inv \in invoices : inv.user = usr[w].id

C26_CrossAccountIndependent == [][C26_CrossAccountStep]_vars

\* C28: distinct payments have distinct invoice numbers, so a settlement that
\* ends with IntegrityError was refused on account of an Invoice of its own
\* payment.
C28_InvoiceNumberInjective ==
  \A w \in Workers :
    (pc[w] = "done" /\ resp[w].error = "IntegrityError")
      => InvoicesOf(obj[w].id) # {}

\* C27: no two Payment records hold the same non-null provider reference,
\* also after the checkout-completed handler has rewritten a stored session
\* id to the session's intent id.
C27_ReferenceUnique ==
  \A p \in PayIds, q \in PayIds :
    (p # q /\ payments[p].exists /\ payments[q].exists /\ payments[p].spi # NoRef)
      => payments[p].spi # payments[q].spi

C27_Witness ==
  \E p \in PayIds, q \in PayIds :
    /\ p # q
    /\ gateway[p] = "session" /\ payments[p].spi = Pi(p)
    /\ payments[q].exists /\ payments[q].spi # NoRef

\* C29: a worker calls the gateway (its request records the credential the
\* call used) only outside the settlement transaction, before the atomic
\* block is entered, and a webhook request never calls it.
C29_GatewayCalled(w) == req'[w].key # "none" /\ req'[w].key # req[w].key

C29_GatewayStep ==
  \A w \in Workers :
    C29_GatewayCalled(w) =>
      /\ ~InTransaction(w)
      /\ req'[w].kind \notin {"webhook", "wh_succeeded", "wh_failed", "wh_checkout", "wh_other"}

C29_NoGatewayCallInTransaction == [][C29_GatewayStep]_vars

C29_Witness ==
  /\ \E w \in Workers :
       req[w].kind = "confirm" /\ InTransaction(w) /\ req[w].key # "none"
  /\ \E w \in Workers :
       req[w].kind \in {"wh_succeeded", "wh_checkout"} /\ InTransaction(w)
         /\ req[w].key = "none"

\* C30: a confirmation is inside the settlement only when the authenticated
\* caller owns the payment being settled.
C30_ConfirmOnlyByOwner ==
  \A w \in Workers :
    (req[w].kind = "confirm" /\ InTransaction(w)) => req[w].user = obj[w].row.user

TokenOps == {"verify_email", "reset_password_confirm"}

\* C31: verify_email and reset_password_confirm accept a token only while
\* its row is unused and unexpired; a request that ends with 200 leaves the
\* token marked used, a used token stays used, and a request that presents
\* a used token is answered 400 at its lookup and changes no account.
C31_TokenStep ==
  /\ \A w \in Workers :
       (work[w].pc = "idle" /\ work'[w].op \in TokenOps) =>
         LET t == work'[w].token
         IN /\ work'[w].pc = "a_fetch" =>
                 /\ t \in TokIds /\ verifications[t].exists
                 /\ ~verifications[t].is_used
                 /\ verifications[t].expires_at > now
            /\ (t \in TokIds /\ verifications[t].is_used) =>
                 /\ work'[w].pc = "done" /\ work'[w].code = 400
                 /\ accounts' = accounts /\ verifications' = verifications
  /\ \A w \in Workers :
       (work[w].pc # "done" /\ work'[w].pc = "done" /\ work'[w].code = 200
          /\ work'[w].op \in TokenOps)
         => verifications'[work'[w].token].is_used
  /\ \A t \in TokIds : verifications[t].is_used => verifications'[t].is_used

C31_TokenSingleUse == [][C31_TokenStep]_vars

C31_Witness ==
  \E w \in Workers :
    /\ work[w].pc = "done" /\ work[w].op \in TokenOps /\ work[w].code = 400
    /\ work[w].token \in TokIds
    /\ verifications[work[w].token].is_used
    /\ verifications[work[w].token].expires_at > now

\* C32: no two requests that presented the same token both end with 200.
C32_OneSuccessPerToken ==
  \A w \in Workers, v \in Workers :
    (/\ w # v
     /\ work[w].pc = "done" /\ work[w].op \in TokenOps /\ work[w].code = 200
     /\ work[v].pc = "done" /\ work[v].op \in TokenOps /\ work[v].code = 200)
      => work[w].token # work[v].token

\* C33: verify_email accepts only a token that registration issued, and
\* reset_password_confirm only a token that request_password_reset issued.
C33_TokenPurpose ==
  \A w \in Workers :
    work[w].pc = "a_fetch" =>
      /\ work[w].op = "verify_email" => work[w].ver.issued_by = "create"
      /\ work[w].op = "reset_password_confirm" =>
           work[w].ver.issued_by = "request_password_reset"

\* C34: request_password_reset answers every well-formed email with status
\* 200 and one and the same message, whether or not an account has it.
C34_ResetRequestUniform ==
  \A w \in Workers, v \in Workers :
    (/\ work[w].pc = "done" /\ work[w].op = "request_password_reset"
     /\ work[w].email # MalformedEmail
     /\ work[v].pc = "done" /\ work[v].op = "request_password_reset"
     /\ work[v].email # MalformedEmail)
      => /\ work[w].code = 200
         /\ work[w].code = work[v].code
         /\ work[w].message = work[v].message

C34_Witness ==
  \E w \in Workers, v \in Workers :
    /\ work[w].pc = "done" /\ work[w].op = "request_password_reset"
    /\ work[w].token \in TokIds /\ work[w].mail = "failed"
    /\ work[v].pc = "done" /\ work[v].op = "request_password_reset"
    /\ work[v].email = "u2" /\ ~accounts["u2"].exists

\* C35: when no delivery is in progress, call_count of every active endpoint
\* equals the number of its WebhookEvent rows, and a delivery to an unknown
\* or inactive endpoint is answered 404 and changes neither.
C35_CallCountMatchesEvents ==
  /\ (\A w \in Workers : work[w].pc \in {"idle", "done"})
       => \A e \in EpIds :
            (endpoints[e].exists /\ endpoints[e].is_active)
              => endpoints[e].call_count = events[e]
  /\ \A w \in Workers :
       (work[w].op = "webhook_receive"
          /\ ~(endpoints[work[w].path].exists /\ endpoints[work[w].path].is_active))
         => /\ work[w].pc = "done" /\ work[w].code = 404
            /\ endpoints[work[w].path].call_count = 0 /\ events[work[w].path] = 0

\* C36: a make_api_call that wrote its IntegrationLog ends by returning, with
\* the log at success and sync_count one higher, or by raising, with the
\* log at error, error_count one higher and last_error set.
C36_CallEnds ==
  \A w \in Workers, i \in IntegIds :
    (/\ work[w].pc # "done" /\ work'[w].pc = "done"
     /\ work'[w].op = "make_api_call" /\ work'[w].log # 0
     /\ logs[work'[w].log].integration = i)
      => \/ /\ work'[w].outcome = "returned"
            /\ logs'[work'[w].log].status = "success"
            /\ integrations'[i].sync_count = integrations[i].sync_count + 1
            /\ integrations'[i].error_count = integrations[i].error_count
         \/ /\ work'[w].outcome = "raised"
            /\ logs'[work'[w].log].status = "error"
            /\ integrations'[i].error_count = integrations[i].error_count + 1
            /\ integrations'[i].sync_count = integrations[i].sync_count
            /\ integrations'[i].last_error # "none"

C36_OneLogOneOutcome == [][C36_CallEnds]_vars

\* C37: a verified invoice.payment_succeeded event for the customer id of an
\* existing user writes one completed Payment of that user and one Invoice
\* linked to it, and handle_webhook_event returns success only then.
C37_EventRecorded ==
  \A w \in Workers :
    (/\ work[w].pc = "idle" /\ work'[w].op = "handle_webhook_event"
     /\ work'[w].type = "invoice.payment_succeeded"
     /\ work'[w].customer \in Users)
      => /\ work'[w].outcome = "returned"
         /\ \E p \in PayIds :
              /\ ~payments[p].exists /\ payments'[p].exists
              /\ payments'[p].status = "completed"
              /\ payments'[p].user = work'[w].customer
              /\ \A q \in PayIds \ {p} : payments'[q] = payments[q]
              /\ Cardinality({inv \in invoices' : inv.payment = p}) = 1

C37_PaymentSucceededRecorded == [][C37_EventRecorded]_vars

====
